---- MODULE Spec2Model ----
(***************************************************************************)
(* DLogProof (src/src/lib.rs): a Schnorr proof of knowledge of a discrete  *)
(* logarithm made non-interactive by the Fiat-Shamir transform.            *)
(*                                                                         *)
(* The group is a cyclic group of prime order, as the group of Secp256k1   *)
(* is, scaled down to GroupOrder elements.  A point is represented by its  *)
(* discrete logarithm with respect to the generator, so the point at       *)
(* infinity is 0 and the generator is 1; point addition and scalar         *)
(* multiplication are then addition and multiplication modulo GroupOrder.  *)
(*                                                                         *)
(* SHA-256 is a fixed function whose values cannot be computed here.  It   *)
(* is modelled as a random oracle: the variable oracle holds the digests   *)
(* revealed so far, a digest of a new input is any digest, and a digest of *)
(* an input seen before is the digest it had.  oracle is not state of the  *)
(* program: it is the part of the hash function the run has looked at.     *)
(***************************************************************************)
EXTENDS Integers, Sequences, FiniteSets

(* The bound of the model: the group order is the OrderIndex-th of         *)
(* PrimeOrders.                                                            *)
OrderIndex == 2

(* ------------------------------------------------------------------ *)
(* curv: Scalar<Secp256k1> and Point<Secp256k1>                       *)
(* ------------------------------------------------------------------ *)
PrimeOrders == <<3, 5, 7, 11, 13>>
GroupOrder == PrimeOrders[OrderIndex]
Scalars == 0 .. (GroupOrder - 1)
Points == 0 .. (GroupOrder - 1)
Generator == 1

ScalarAdd(a, b) == (a + b) % GroupOrder
ScalarMul(a, b) == (a * b) % GroupOrder
PointAdd(P, Q) == (P + Q) % GroupOrder
PointMul(P, s) == (P * s) % GroupOrder
IsZero(s) == s = 0

(* Point::to_bytes(false): the uncompressed form, of one fixed length; a   *)
(* tag byte and the coordinates (here one byte of them).                   *)
PointToBytes(P) == IF P = 0 THEN <<0, 0>> ELSE <<4, P>>

(* i32::to_be_bytes: four bytes, big-endian, two's complement.             *)
Bytes4(u) ==
    << (u \div 16777216) % 256, (u \div 65536) % 256, (u \div 256) % 256, u % 256 >>
ToBeBytes(participant_id) ==
    IF participant_id >= 0
    THEN Bytes4(participant_id)
    ELSE [i \in 1 .. 4 |-> 255 - Bytes4(-participant_id - 1)[i]]

(* ------------------------------------------------------------------ *)
(* sha2::Sha256 and the digest's way into a scalar                    *)
(* ------------------------------------------------------------------ *)
(* A digest is DigestLen binary digits, the shortest that can hold the     *)
(* group order (32 bytes for the 256-bit order of Secp256k1).              *)
DigestLen == CHOOSE w \in 1 .. 8 : 2 ^ (w - 1) <= GroupOrder /\ GroupOrder < 2 ^ w
Digests == [1 .. DigestLen -> {0, 1}]

(* BigInt::from_bytes: the digits read as a big-endian unsigned integer.   *)
RECURSIVE FromBytes(_)
FromBytes(bytes) ==
    IF bytes = <<>>
    THEN 0
    ELSE 2 * FromBytes(SubSeq(bytes, 1, Len(bytes) - 1)) + bytes[Len(bytes)]

(* Scalar::from_bigint: reduction modulo the group order.                  *)
FromBigint(n) == n % GroupOrder

VARIABLES oracle, gens, vers
vars == <<oracle, gens, vers>>

(* Sha256::finalize as a relation: digest may be the digest of input.      *)
(* Sha256Salted is a hasher that carries state from one call to the next,  *)
(* so that one input may have several digests.                             *)
Sha256Salted(input, digest) == TRUE
Sha256(input, digest) == input \in DOMAIN oracle => oracle[input] = digest

(* The oracle once digest is known to be the digest of input.              *)
Reveal(input, digest) ==
    [m \in DOMAIN oracle \cup {input} |-> IF m = input THEN digest ELSE oracle[m]]

(* ------------------------------------------------------------------ *)
(* DLogProof                                                          *)
(* ------------------------------------------------------------------ *)
New(commitment, response) == [commitment |-> commitment, response |-> response]

(* The bytes compute_challenge feeds the hash (lines 22-27).               *)
RECURSIVE UpdatePoints(_, _)
UpdatePoints(bytes, points) ==
    IF points = <<>>
    THEN bytes
    ELSE UpdatePoints(bytes \o PointToBytes(Head(points)), Tail(points))
HashInput(session_id, participant_id, points) ==
    UpdatePoints(session_id \o ToBeBytes(participant_id), points)

(* compute_challenge, given the function sha256 from inputs to digests: a  *)
(* record saying whether it panicked, and the challenge if it did not.     *)
(* ComputeChallengeUnchecked is compute_challenge without its check for    *)
(* the zero scalar.                                                        *)
ComputeChallengeUnchecked(session_id, participant_id, points, sha256) ==
    LET sha_hash_result == sha256[HashInput(session_id, participant_id, points)]
        hash_as_bigint == FromBytes(sha_hash_result)
        challenge == FromBigint(hash_as_bigint)
    IN  [panicked |-> FALSE, value |-> challenge]
ComputeChallenge(session_id, participant_id, points, sha256) ==
    LET sha_hash_result == sha256[HashInput(session_id, participant_id, points)]
        hash_as_bigint == FromBytes(sha_hash_result)
        challenge == FromBigint(hash_as_bigint)
    IN  [panicked |-> IsZero(challenge), value |-> challenge]

(* The points generate_proof and verify_proof hand to compute_challenge,   *)
(* and the same with the first two in the other order.                     *)
ProverPointsSwapped(base_point, public_key, commitment) ==
    <<public_key, base_point, commitment>>
ProverPoints(base_point, public_key, commitment) ==
    <<base_point, public_key, commitment>>
VerifierPointsSwapped(self, public_key, base_point) ==
    <<public_key, base_point, self.commitment>>
VerifierPoints(self, public_key, base_point) ==
    <<base_point, public_key, self.commitment>>

(* The commitment and the response of generate_proof; ResponseMinus is the *)
(* response with the sign of private_key * challenge wrong.                *)
Commitment(base_point, random_scalar) == PointMul(base_point, random_scalar)
ResponseMinus(random_scalar, private_key, challenge) ==
    (random_scalar + (GroupOrder - 1) * private_key * challenge) % GroupOrder
Response(random_scalar, private_key, challenge) ==
    ScalarAdd(random_scalar, ScalarMul(private_key, challenge))

(* generate_proof: <<proof>>, or <<>> when compute_challenge panicked.     *)
(* GenerateProofKeepGoing returns a proof whether or not it did.           *)
GenerateProofKeepGoing(session_id, participant_id, private_key, public_key, base_point, random_scalar, sha256) ==
    LET commitment == Commitment(base_point, random_scalar)
        challenge == ComputeChallenge(session_id, participant_id,
                        ProverPoints(base_point, public_key, commitment), sha256)
        response == Response(random_scalar, private_key, challenge.value)
    IN  <<New(commitment, response)>>
GenerateProof(session_id, participant_id, private_key, public_key, base_point, random_scalar, sha256) ==
    LET commitment == Commitment(base_point, random_scalar)
        challenge == ComputeChallenge(session_id, participant_id,
                        ProverPoints(base_point, public_key, commitment), sha256)
        response == Response(random_scalar, private_key, challenge.value)
    IN  IF challenge.panicked THEN <<>> ELSE <<New(commitment, response)>>

(* verify_proof: "true", "false", or "panic" when compute_challenge        *)
(* panicked.  VerifyProofNoChallenge leaves the challenge out of rhs.      *)
VerifyProofNoChallenge(self, session_id, participant_id, public_key, base_point, sha256) ==
    LET challenge == ComputeChallenge(session_id, participant_id,
                        VerifierPoints(self, public_key, base_point), sha256)
        lhs == PointMul(base_point, self.response)
        rhs == PointAdd(self.commitment, public_key)
    IN  IF challenge.panicked THEN "panic"
        ELSE IF lhs = rhs THEN "true" ELSE "false"
VerifyProof(self, session_id, participant_id, public_key, base_point, sha256) ==
    LET challenge == ComputeChallenge(session_id, participant_id,
                        VerifierPoints(self, public_key, base_point), sha256)
        lhs == PointMul(base_point, self.response)
        rhs == PointAdd(self.commitment, PointMul(public_key, challenge.value))
    IN  IF challenge.panicked THEN "panic"
        ELSE IF lhs = rhs THEN "true" ELSE "false"

(* ------------------------------------------------------------------ *)
(* Calls of the library                                               *)
(* ------------------------------------------------------------------ *)
(* gens and vers are the calls of generate_proof and of verify_proof made  *)
(* so far, each with its inputs, the bytes it hashed, their digest, the    *)
(* challenge it derived and its outcome.  again says that verify_proof had *)
(* been called with the same proof and the same arguments before.          *)
Generate(session_id, participant_id, private_key, public_key, base_point, random_scalar, digest) ==
    LET commitment == Commitment(base_point, random_scalar)
        points == ProverPoints(base_point, public_key, commitment)
        input == HashInput(session_id, participant_id, points)
        sha256 == Reveal(input, digest)
    IN  /\ Sha256(input, digest)
        /\ oracle' = sha256
        /\ gens' = gens \cup
              {[session_id |-> session_id, participant_id |-> participant_id,
                private_key |-> private_key, public_key |-> public_key,
                base_point |-> base_point, random_scalar |-> random_scalar,
                input |-> input, digest |-> digest,
                challenge |-> ComputeChallenge(session_id, participant_id, points, sha256),
                out |-> GenerateProof(session_id, participant_id, private_key,
                           public_key, base_point, random_scalar, sha256)]}
        /\ UNCHANGED vers

SameCall(v, self, session_id, participant_id, public_key, base_point) ==
    /\ v.self = self
    /\ v.session_id = session_id
    /\ v.participant_id = participant_id
    /\ v.public_key = public_key
    /\ v.base_point = base_point

Verify(self, session_id, participant_id, public_key, base_point, digest) ==
    LET points == VerifierPoints(self, public_key, base_point)
        input == HashInput(session_id, participant_id, points)
        sha256 == Reveal(input, digest)
    IN  /\ Sha256(input, digest)
        /\ oracle' = sha256
        /\ vers' = vers \cup
              {[self |-> self, session_id |-> session_id,
                participant_id |-> participant_id, public_key |-> public_key,
                base_point |-> base_point,
                input |-> input, digest |-> digest,
                challenge |-> ComputeChallenge(session_id, participant_id, points, sha256),
                again |-> \E v \in vers : SameCall(v, self, session_id, participant_id,
                                                   public_key, base_point),
                out |-> VerifyProof(self, session_id, participant_id, public_key,
                           base_point, sha256)]}
        /\ UNCHANGED gens

(* ------------------------------------------------------------------ *)
(* The callers                                                        *)
(* ------------------------------------------------------------------ *)
SessionIds == {<<65>>, <<65, 66>>}
ParticipantIds == {1, 2}
BasePoints == {0, Generator}
(* Scalar::random() of Secp256k1 draws a secret key, which is never zero.  *)
RandomScalars == Scalars \ {0}

Returned == {g \in gens : g.out # <<>>}
HonestKey(g) == g.public_key = (g.base_point * g.private_key) % GroupOrder

(* The call of verify_proof that repeats the prover's own arguments.       *)
SameArguments(g) ==
    [self |-> g.out[1], session_id |-> g.session_id,
     participant_id |-> g.participant_id,
     public_key |-> g.public_key, base_point |-> g.base_point]

(* The calls a verifier makes after the call g of generate_proof: the one  *)
(* with the prover's arguments and, for a proof of a matching key pair,    *)
(* those that differ from it in one place.                                 *)
VerifierCalls(g) ==
    LET same == SameArguments(g)
    IN  IF ~HonestKey(g)
        THEN {same}
        ELSE {[same EXCEPT !.session_id = s] : s \in SessionIds}
             \cup {[same EXCEPT !.participant_id = p] : p \in ParticipantIds}
             \cup {[same EXCEPT !.public_key = Y] : Y \in Points}
             \cup {[same EXCEPT !.self = New(R, same.self.response)] : R \in Points}
             \cup {[same EXCEPT !.self = New(same.self.commitment, s)] : s \in Scalars}

Init ==
    /\ oracle = <<>>
    /\ gens = {}
    /\ vers = {}

(* One call of generate_proof, then one call of verify_proof.              *)
ProverStep ==
    /\ gens = {}
    /\ \E session_id \in SessionIds, participant_id \in ParticipantIds,
          private_key \in Scalars, public_key \in Points, base_point \in BasePoints,
          random_scalar \in RandomScalars, digest \in Digests :
          Generate(session_id, participant_id, private_key, public_key, base_point,
                   random_scalar, digest)

VerifierStep ==
    /\ vers = {}
    /\ \E g \in Returned : \E c \in VerifierCalls(g), digest \in Digests :
          Verify(c.self, c.session_id, c.participant_id, c.public_key, c.base_point,
                 digest)

Next == ProverStep \/ VerifierStep

Spec == Init /\ [][Next]_vars

(* Any number of calls in any order: a prover with one key pair proving in *)
(* every session, and verifiers holding the proofs returned so far and     *)
(* verifying them under every session.                                     *)
RepeatedProverStep ==
    \E session_id \in SessionIds, digest \in Digests :
        Generate(session_id, 1, 2, PointMul(Generator, 2), Generator, 1, digest)

RepeatedVerifierStep ==
    \E g \in Returned : \E session_id \in SessionIds, digest \in Digests :
        Verify(g.out[1], session_id, g.participant_id, g.public_key, g.base_point,
               digest)

NextRepeated == RepeatedProverStep \/ RepeatedVerifierStep

SpecRepeated == Init /\ [][NextRepeated]_vars

(* ------------------------------------------------------------------ *)
(* Properties                                                         *)
(* ------------------------------------------------------------------ *)
(* The challenge a digest reduces to, and how a call of verify_proof       *)
(* relates to a call of generate_proof.                                    *)
Reduced(digest) == FromBytes(digest) % GroupOrder
Handed(g, v) == g.out # <<>> /\ v.self = g.out[1]
SameContext(g, v) ==
    v.session_id = g.session_id /\ v.participant_id = g.participant_id
SameKey(g, v) == v.public_key = g.public_key /\ v.base_point = g.base_point

(* C1. Completeness: the proof generate_proof returns for a private key x  *)
(* and the public key x*B verifies under the same session, participant,    *)
(* public key and base point, whatever scalar the prover drew.             *)
C1_Completeness ==
    \A g \in gens, v \in vers :
        (HonestKey(g) /\ Handed(g, v) /\ SameContext(g, v) /\ SameKey(g, v))
            => v.out = "true"

C1_Witness ==
    \E g \in gens, v \in vers :
        /\ HonestKey(g) /\ Handed(g, v) /\ SameContext(g, v) /\ SameKey(g, v)
        /\ g.private_key # 0 /\ g.base_point = Generator
        /\ v.out = "true"

(* v verifies the proof of g under the public key Y + r*B, r # 0, in       *)
(* place of Y.                                                             *)
Substituted(g, v, r) ==
    /\ HonestKey(g) /\ Handed(g, v) /\ SameContext(g, v)
    /\ v.base_point = g.base_point
    /\ v.public_key = (g.public_key + r * g.base_point) % GroupOrder
    /\ v.public_key # g.public_key

Replayed(g, v) ==
    /\ HonestKey(g) /\ Handed(g, v) /\ SameKey(g, v)
    /\ ~SameContext(g, v)

(* C3. Context binding: a proof verified with the same public key and base *)
(* point but under another session_id or participant_id is rejected.       *)
(* Stated for a base point other than the point at infinity and for the   *)
(* runs in which the verifier's challenge is neither zero nor the          *)
(* prover's, so that no violation rests on a degenerate group or on a      *)
(* coincidence of digests.                                                 *)
C3_ContextBinding ==
    \A g \in gens, v \in vers :
        (/\ Replayed(g, v)
         /\ g.base_point # 0
         /\ Reduced(v.digest) \notin {0, Reduced(g.digest)})
            => v.out = "false"

(* v verifies the proof of g with its response replaced.                   *)
Forged(g, v) ==
    /\ HonestKey(g) /\ g.out # <<>> /\ SameContext(g, v) /\ SameKey(g, v)
    /\ v.self.commitment = g.out[1].commitment
    /\ v.self.response # g.out[1].response

(* C4. verify_proof returns false, and does not panic, for a proof under a *)
(* mismatched session or participant, under a mismatched public key, or    *)
(* with a forged response.  Stated for the runs in which the digest of an  *)
(* input the prover did not hash is none of the values that decide the     *)
(* outcome by coincidence: zero, the prover's challenge c, and under a     *)
(* public key Y' # Y the c' with c'*Y' = c*Y.                              *)
C4_MismatchReturnsFalse ==
    \A g \in gens, v \in vers :
        LET c == Reduced(g.digest)
            c2 == Reduced(v.digest)
            mismatch ==
                \/ Replayed(g, v)
                \/ Forged(g, v)
                \/ \E r \in 1 .. (GroupOrder - 1) : Substituted(g, v, r)
            coincidence ==
                /\ v.input # g.input
                /\ \/ c2 \in {0, c}
                   \/ /\ v.public_key # g.public_key
                      /\ (c2 * v.public_key) % GroupOrder = (c * g.public_key) % GroupOrder
        IN  (mismatch /\ ~coincidence) => v.out = "false"

(* C5. A challenge that reduces to zero is fatal on both sides:            *)
(* generate_proof returns a proof exactly when the digest of its input     *)
(* reduces to a nonzero scalar and returns nothing otherwise, and          *)
(* verify_proof returns true or false exactly when the digest of its input *)
(* reduces to a nonzero scalar and panics otherwise.                       *)
C5_ZeroChallengeFatal ==
    /\ \A g \in gens :
          /\ g.digest = oracle[g.input]
          /\ g.out = <<>> <=> Reduced(g.digest) = 0
          /\ g.out # <<>> => (g.challenge.value # 0 /\ ~g.challenge.panicked)
    /\ \A v \in vers :
          /\ v.digest = oracle[v.input]
          /\ v.out = "panic" <=> Reduced(v.digest) = 0
          /\ v.out \in {"true", "false"} =>
                (v.challenge.value # 0 /\ ~v.challenge.panicked)

C5_Witness ==
    \E g \in gens, v \in vers :
        /\ Handed(g, v)
        /\ Reduced(v.digest) = 0
        /\ v.out = "panic"

(* C6. Non-malleability, for the response: a valid proof (R, s) with s     *)
(* replaced by another scalar is rejected under the same context.          *)
C6_ForgedResponseRejected ==
    \A g \in gens, v \in vers :
        Forged(g, v) => v.out = "false"

(* C7. The challenge is a function of session_id, participant_id and the   *)
(* points in their order: a verify_proof with the session, participant,    *)
(* base point, public key and commitment of a generate_proof derives the   *)
(* prover's challenge, whatever the response, and so do two verify_proof   *)
(* calls with the same of these.                                           *)
SamePoints(g, v) ==
    <<v.base_point, v.public_key, v.self.commitment>> =
        <<g.base_point, g.public_key, (g.base_point * g.random_scalar) % GroupOrder>>
C7_ChallengeDeterministic ==
    /\ \A g \in gens, v \in vers :
          (SameContext(g, v) /\ SamePoints(g, v)) =>
              /\ v.input = g.input
              /\ v.digest = g.digest
              /\ v.challenge = g.challenge
    /\ \A v \in vers, w \in vers :
          (/\ SameContext(v, w) /\ SameKey(v, w)
           /\ w.self.commitment = v.self.commitment) => w.challenge = v.challenge

C7_Witness ==
    \E g \in gens, v \in vers :
        /\ SameContext(g, v) /\ SamePoints(g, v)
        /\ g.out # <<>> /\ v.self.response # g.out[1].response
        /\ v.challenge = g.challenge

(* C8. verify_proof is a read-only predicate: a call of it changes no      *)
(* proof and no record of an earlier call, and every call with the proof   *)
(* and the arguments of an earlier call has the outcome of that call,      *)
(* whatever calls were made in between.                                    *)
C8_VerifyPure ==
    [][ /\ (vers' # vers => gens' = gens)
        /\ vers \subseteq vers'
        /\ \A v \in vers, w \in vers' :
              SameCall(v, w.self, w.session_id, w.participant_id, w.public_key,
                       w.base_point) => w.out = v.out ]_vars

C8_Witness ==
    /\ Cardinality(gens) >= 2
    /\ \E v \in vers, w \in vers :
          /\ w.again /\ ~v.again
          /\ SameCall(v, w.self, w.session_id, w.participant_id, w.public_key,
                      w.base_point)
          /\ w.out = v.out

(* C9. generate_proof returns (R, s) with R = k*B and s = k + x*c modulo   *)
(* the group order, c the challenge of session_id, participant_id and      *)
(* [B, Y, R]; verify_proof derives its challenge from [B, Y, commitment]   *)
(* and returns true iff B*response = commitment + c*Y.                     *)
Transcript(session_id, participant_id, B, Y, R) ==
    session_id \o ToBeBytes(participant_id)
        \o PointToBytes(B) \o PointToBytes(Y) \o PointToBytes(R)
C9_ProofAndEquation ==
    /\ \A g \in gens :
          LET k == g.random_scalar
              R == (k * g.base_point) % GroupOrder
              c == Reduced(oracle[Transcript(g.session_id, g.participant_id,
                                             g.base_point, g.public_key, R)])
              s == (k + g.private_key * c) % GroupOrder
          IN  /\ g.input = Transcript(g.session_id, g.participant_id,
                                      g.base_point, g.public_key, R)
              /\ c # 0 => g.out = <<[commitment |-> R, response |-> s]>>
    /\ \A v \in vers :
          LET c == Reduced(oracle[Transcript(v.session_id, v.participant_id,
                                             v.base_point, v.public_key,
                                             v.self.commitment)])
              holds == (v.base_point * v.self.response) % GroupOrder
                          = (v.self.commitment + c * v.public_key) % GroupOrder
          IN  /\ v.input = Transcript(v.session_id, v.participant_id,
                                      v.base_point, v.public_key, v.self.commitment)
              /\ c # 0 => (v.out = "true" <=> holds) /\ (v.out = "false" <=> ~holds)

C9_Witness ==
    \E g \in gens, v \in vers :
        /\ Forged(g, v)
        /\ g.private_key # 0 /\ g.base_point = Generator
        /\ v.out = "false"

(* C10. generate_proof does not compare public_key with private_key*B, but *)
(* for a base point other than the point at infinity the proof it returns  *)
(* verifies under the same session, participant, public key and base point *)
(* iff public_key = private_key*B, and is rejected otherwise.              *)
C10_WrongKeyRejected ==
    \A g \in gens, v \in vers :
        (/\ g.base_point # 0
         /\ Handed(g, v) /\ SameContext(g, v) /\ SameKey(g, v)) =>
            /\ v.out = "true" <=> HonestKey(g)
            /\ v.out = "false" <=> ~HonestKey(g)

C10_Witness ==
    \E g \in gens, v \in vers :
        /\ g.base_point # 0 /\ ~HonestKey(g)
        /\ Handed(g, v) /\ SameContext(g, v) /\ SameKey(g, v)
        /\ v.out = "false"

====
